---- MODULE Spec2Model ----
(***************************************************************************)
(* Model of pajarori/pwn.py: the terminal selector get_terminal, the      *)
(* module-level assignment context.terminal = get_terminal(), the ELF     *)
(* wrapper and the launch dispatcher start.                                *)
(*                                                                         *)
(* Python lists are modelled as sequences; Python index i is sequence      *)
(* index i + 1.  The pwntools primitives (_ELF, gdb.debug, remote,         *)
(* process) are external: each invocation is recorded and its outcome     *)
(* (a handle, or an error the library raises) is a nondeterministic       *)
(* choice.                                                                 *)
(***************************************************************************)
EXTENDS Integers, Sequences, FiniteSets, TLC

\* ------------------------------------------------------------------ bounds
\* Largest number of candidate terminal executables installed at once.
MaxInstalled == 3
\* Largest length of the raw argument list sys.argv.
MaxArgc == 3
\* Largest number of binary handles the loading primitive hands out.
MaxHandles == 2

\* ------------------------------------------------------------- vocabulary
None == "<None>"
NoHandle == [id |-> 0, path |-> None]
NoResult == [kind |-> None, args |-> <<>>]
NoError == "<no error>"

Splits == {"horizontal", "vertical"}
Paths == {"./chall", "./libc.so.6"}
Handles == [id : 1..MaxHandles, path : Paths]
\* Errors the external library's primitives may raise.
LibErrors == {"FileNotFoundError", "PwnlibException"}
LibOutcomes == {"ok"} \cup LibErrors
\* Values of the TMUX environment variable: absent, present but empty,
\* present with the socket description tmux exports.
TmuxValues == {None, "", "/tmp/tmux-1000/default,4242,0"}
\* Keyword options of start: no gdbscript, an empty one, a real one.
NoOptions == [k \in {} |-> ""]
Options == {NoOptions} \cup [{"gdbscript"} -> {"", "b main"}]
\* A terminal command set in the library's configuration before this
\* module is imported.
Preconfigured == <<"x-terminal-emulator", "-e">>

VARIABLES
    phase,      \* "import": module body not yet at line 34; "ready": imported
    avail,      \* executables shutil.which finds on the search path
    tmuxEnv,    \* os.environ.get("TMUX")
    terminal,   \* context.terminal
    binary,     \* context.binary
    args,       \* pwnlib args: the truth values of args.GDB and args.REMOTE
    argv,       \* sys.argv
    nextId,     \* identity of the next handle the loader creates
    op,         \* the last operation called
    split,      \* get_terminal: its split argument
    force,      \* get_terminal: its force argument
    cmd,        \* get_terminal: the value returned
    elf,        \* the last call's elf argument (start), NoHandle otherwise
    kwargs,     \* the last call's keyword options (start), none otherwise
    invoked,    \* library primitives the last ELF/start call invoked, with
                \* what each did: "ok" or the error it raised
    ret,        \* what the last ELF/start call returned: a handle (ELF), a
                \* running target (start), NoHandle/NoResult if it raised
    raised      \* error the last ELF/start call propagated, NoError if none

vars == <<phase, avail, tmuxEnv, terminal, binary, args, argv, nextId,
          op, split, force, cmd, elf, kwargs, invoked, ret, raised>>
envVars == <<avail, tmuxEnv>>
terminalCall == <<op, split, force, cmd>>
launchCall == <<elf, kwargs, invoked, ret, raised>>
launchState == <<binary, nextId, elf, kwargs, invoked, ret, raised>>

\* ------------------------------------------------------- Python helpers
\* Truthiness of a string-or-None value: None and "" are falsy.
Truthy(v) == v # None /\ v # ""

\* Truthiness of a list: [] is falsy.
TruthyList(l) == l # <<>>

\* dict.get(key)
Get(d, key) == IF key \in DOMAIN d THEN d[key] ELSE None

\* list[i] with a 0-based index i; IndexError outside the list
InRange(list, i) == i >= 0 /\ i < Len(list)
Item(list, i) == list[i + 1]

\* ------------------------------------------------------ get_terminal
TerminalNames == <<"tmux", "kitty", "wezterm", "alacritty", "konsole",
                   "gnome-terminal", "xfce4-terminal", "terminator", "xterm">>

split_flag_constant(s) == "-h"

split_flag(s) == IF s = "horizontal" THEN "-h" ELSE "-v"

\* has(bin_name): shutil.which(bin_name) is not None
has(bin_name, av) == bin_name \in av

\* The candidate table, for one split flag and one environment: name,
\* command and the value of the availability lambda.
TERMINALS(flag, av, tmux) == <<
    [name |-> "tmux", cmd |-> <<"tmux", "splitw", flag>>,
        condition |-> Truthy(tmux) /\ has("tmux", av)],
    [name |-> "kitty", cmd |-> <<"kitty", "-e">>, condition |-> has("kitty", av)],
    [name |-> "wezterm", cmd |-> <<"wezterm", "start", "--">>,
        condition |-> has("wezterm", av)],
    [name |-> "alacritty", cmd |-> <<"alacritty", "-e">>,
        condition |-> has("alacritty", av)],
    [name |-> "konsole", cmd |-> <<"konsole", "-e">>, condition |-> has("konsole", av)],
    [name |-> "gnome-terminal", cmd |-> <<"gnome-terminal", "--">>,
        condition |-> has("gnome-terminal", av)],
    [name |-> "xfce4-terminal", cmd |-> <<"xfce4-terminal", "-e">>,
        condition |-> has("xfce4-terminal", av)],
    [name |-> "terminator", cmd |-> <<"terminator", "-x">>,
        condition |-> has("terminator", av)],
    [name |-> "xterm", cmd |-> <<"xterm", "-e">>, condition |-> has("xterm", av)] >>

FallbackEmpty == <<>>

Fallback == <<"bash", "-lc">>

\* A loop that keeps the last candidate whose condition holds.
RECURSIVE SearchLastFrom(_, _)
SearchLastFrom(table, i) ==
    IF i > Len(table) THEN Fallback
    ELSE LET later == SearchLastFrom(table, i + 1)
         IN IF later # Fallback THEN later
            ELSE IF table[i].condition THEN table[i].cmd ELSE Fallback

\* The for loop of lines 28-32, from candidate i on.
RECURSIVE SearchFrom(_, _)
SearchFrom(table, i) ==
    IF i > Len(table) THEN Fallback
    ELSE IF table[i].condition THEN table[i].cmd
    ELSE SearchFrom(table, i + 1)

\* A selector that probes on every call and never reads the cache.
GetTerminalResultUncached(cached, s, f, av, tmux) ==
    SearchFrom(TERMINALS(split_flag(s), av, tmux), 1)

\* The value get_terminal returns.
GetTerminalResult(cached, s, f, av, tmux) ==
    IF TruthyList(cached) /\ ~f THEN cached
    ELSE SearchFrom(TERMINALS(split_flag(s), av, tmux), 1)

\* A selector that stores what it recomputes.
get_terminal_storing(s, f) ==
    /\ phase = "ready"
    /\ op' = "get_terminal"
    /\ split' = s
    /\ force' = f
    /\ cmd' = GetTerminalResult(terminal, s, f, avail, tmuxEnv)
    /\ terminal' = cmd'
    /\ UNCHANGED <<phase, envVars, args, argv, launchState>>

\* A call of get_terminal by the script.
get_terminal(s, f) ==
    /\ phase = "ready"
    /\ op' = "get_terminal"
    /\ split' = s
    /\ force' = f
    /\ cmd' = GetTerminalResult(terminal, s, f, avail, tmuxEnv)
    /\ UNCHANGED <<phase, envVars, terminal, args, argv, launchState>>

\* Line 34: context.terminal = get_terminal(), with the default arguments.
ModuleInit ==
    /\ phase = "import"
    /\ phase' = "ready"
    /\ op' = "get_terminal"
    /\ split' = "horizontal"
    /\ force' = FALSE
    /\ cmd' = GetTerminalResult(terminal, "horizontal", FALSE, avail, tmuxEnv)
    /\ terminal' = cmd'
    /\ UNCHANGED <<envVars, args, argv, launchState>>

\* ------------------------------------------------ the environment moves
InstalledNames == {TerminalNames[i] : i \in 1..Len(TerminalNames)}

Install(b) ==
    /\ b \notin avail
    /\ Cardinality(avail) < MaxInstalled
    /\ avail' = avail \cup {b}
    /\ UNCHANGED <<phase, tmuxEnv, terminal, args, argv, terminalCall, launchState>>

Uninstall(b) ==
    /\ b \in avail
    /\ avail' = avail \ {b}
    /\ UNCHANGED <<phase, tmuxEnv, terminal, args, argv, terminalCall, launchState>>

SetTmuxEnv(v) ==
    /\ v # tmuxEnv
    /\ tmuxEnv' = v
    /\ UNCHANGED <<phase, avail, terminal, args, argv, terminalCall, launchState>>

\* ---------------------------------------------------------------- ELF
\* An ELF wrapper that tags the current binary before the loader has
\* returned, so a failed load clears the tag.
ELF_tag_first(path, outcome) ==
    /\ phase = "ready"
    /\ op' = "ELF"
    /\ invoked' = <<[prim |-> "_ELF", args |-> <<path>>, outcome |-> outcome]>>
    /\ IF outcome = "ok"
       THEN /\ nextId <= MaxHandles
            /\ ret' = [id |-> nextId, path |-> path]
            /\ nextId' = nextId + 1
            /\ binary' = ret'
            /\ raised' = NoError
       ELSE /\ ret' = NoHandle
            /\ raised' = outcome
            /\ binary' = NoHandle
            /\ UNCHANGED nextId
    /\ elf' = NoHandle
    /\ kwargs' = NoOptions
    /\ UNCHANGED <<phase, envVars, terminal, args, argv, split, force, cmd>>

\* ELF(path): _ELF either returns a fresh handle, which becomes
\* context.binary and is returned, or raises, which ends the call.
ELF(path, outcome) ==
    /\ phase = "ready"
    /\ op' = "ELF"
    /\ invoked' = <<[prim |-> "_ELF", args |-> <<path>>, outcome |-> outcome]>>
    /\ IF outcome = "ok"
       THEN /\ nextId <= MaxHandles
            /\ ret' = [id |-> nextId, path |-> path]
            /\ nextId' = nextId + 1
            /\ binary' = ret'
            /\ raised' = NoError
       ELSE /\ ret' = NoHandle
            /\ raised' = outcome
            /\ UNCHANGED <<binary, nextId>>
    /\ elf' = NoHandle
    /\ kwargs' = NoOptions
    /\ UNCHANGED <<phase, envVars, terminal, args, argv, split, force, cmd>>

\* -------------------------------------------------------------- start
\* What a launch primitive returns when it succeeds: the running target.
Target(prim, a) == [kind |-> prim, args |-> a]

\* Invoke one library primitive: record it, return or propagate.
Delegate(prim, a, outcome) ==
    /\ invoked' = <<[prim |-> prim, args |-> a, outcome |-> outcome]>>
    /\ IF outcome = "ok"
       THEN ret' = Target(prim, a) /\ raised' = NoError
       ELSE ret' = NoResult /\ raised' = outcome

\* An error raised before any primitive is reached.
RaiseLocally(err) ==
    /\ invoked' = <<>>
    /\ ret' = NoResult
    /\ raised' = err

\* A dispatcher that tests the remote flag first.
LaunchModeRemoteFirst(flags, kw) ==
    IF flags.REMOTE THEN "remote"
    ELSE IF flags.GDB /\ Truthy(Get(kw, "gdbscript")) THEN "gdb.debug"
    ELSE "process"

\* A dispatcher that debugs whenever a script is given, flag or no flag.
LaunchModeScriptOnly(flags, kw) ==
    IF Truthy(Get(kw, "gdbscript")) THEN "gdb.debug"
    ELSE IF flags.REMOTE THEN "remote"
    ELSE "process"

\* The if / elif / else of lines 42-47.
LaunchMode(flags, kw) ==
    IF flags.GDB /\ Truthy(Get(kw, "gdbscript")) THEN "gdb.debug"
    ELSE IF flags.REMOTE THEN "remote"
    ELSE "process"

\* The arguments of remote(): sys.argv[1], sys.argv[2].
RemoteArgs(list) == <<Item(list, 1), Item(list, 2)>>

start(e, kw, outcome) ==
    /\ phase = "ready"
    /\ op' = "start"
    /\ elf' = e
    /\ kwargs' = kw
    /\ LET mode == LaunchMode(args, kw)
       IN CASE mode = "gdb.debug" ->
                 Delegate("gdb.debug", <<e.path, Get(kw, "gdbscript")>>, outcome)
            [] mode = "remote" ->
                 IF InRange(argv, 1) /\ InRange(argv, 2)
                 THEN Delegate("remote", RemoteArgs(argv), outcome)
                 ELSE RaiseLocally("IndexError")
            [] mode = "process" ->
                 Delegate("process", <<e.path>>, outcome)
    /\ UNCHANGED <<phase, envVars, terminal, binary, nextId, args, argv,
                   split, force, cmd>>

\* ------------------------------------------------------ specifications
ArgAt(i) == IF i = 1 THEN "exploit.py"
            ELSE IF i = 2 THEN "10.0.0.1"
            ELSE IF i = 3 THEN "1337" ELSE "DEBUG"
Argvs == {[i \in 1..n |-> ArgAt(i)] : n \in 1..MaxArgc}
Environments == {av \in SUBSET InstalledNames : Cardinality(av) <= MaxInstalled}

\* The interpreter has run "from pwn import *": the library has parsed the
\* command line, context.terminal is empty unless configured.
Init ==
    /\ phase = "import"
    /\ avail \in Environments
    /\ tmuxEnv \in TmuxValues
    /\ terminal \in {<<>>, Preconfigured}
    /\ binary = NoHandle
    /\ args \in [GDB : BOOLEAN, REMOTE : BOOLEAN]
    /\ argv \in Argvs
    /\ nextId = 1
    /\ op = "none"
    /\ split = "horizontal"
    /\ force = FALSE
    /\ cmd = <<>>
    /\ elf = NoHandle
    /\ kwargs = NoOptions
    /\ invoked = <<>>
    /\ ret = NoHandle
    /\ raised = NoError

EnvironmentChange ==
    \/ \E b \in InstalledNames : Install(b)
    \/ \E b \in InstalledNames : Uninstall(b)
    \/ \E v \in TmuxValues : SetTmuxEnv(v)

TerminalCall == \E s \in Splits, f \in BOOLEAN : get_terminal(s, f)
ElfCall == \E p \in Paths, o \in LibOutcomes : ELF(p, o)
StartCall == \E e \in Handles, kw \in Options, o \in LibOutcomes : start(e, kw, o)

\* The whole program.
Next == ModuleInit \/ EnvironmentChange \/ TerminalCall \/ ElfCall \/ StartCall
Spec == Init /\ [][Next]_vars

\* get_terminal reads neither the flags nor sys.argv, and ELF and start
\* read neither the search path nor TMUX, so each half is explored with the
\* other half's inputs held at one value.
InitTerminal ==
    /\ Init
    /\ args = [GDB |-> FALSE, REMOTE |-> FALSE]
    /\ Len(argv) = 1
NextTerminal == ModuleInit \/ EnvironmentChange \/ TerminalCall
SpecTerminal == InitTerminal /\ [][NextTerminal]_vars

InitLaunch ==
    /\ Init
    /\ avail = {}
    /\ tmuxEnv = None
NextLaunch == ModuleInit \/ ElfCall \/ StartCall
SpecLaunch == InitLaunch /\ [][NextLaunch]_vars

\* ------------------------------------------------------------ properties
\* A step that is a call of get_terminal, the one at line 34 included: the
\* call leaves the environment alone and records itself as the last call.
GetTerminalStep == op' = "get_terminal" /\ UNCHANGED envVars

\* The candidates available in the current environment, by position in
\* the documented priority order.
PriorityOrder == <<"tmux", "kitty", "wezterm", "alacritty", "konsole",
                   "gnome-terminal", "xfce4-terminal", "terminator", "xterm">>
CandidateAvailable(i) ==
    IF PriorityOrder[i] = "tmux"
    THEN tmuxEnv \notin {None, ""} /\ "tmux" \in avail
    ELSE PriorityOrder[i] \in avail
AvailablePositions == {i \in DOMAIN PriorityOrder : CandidateAvailable(i)}
FirstAvailable == CHOOSE i \in AvailablePositions :
                      \A j \in AvailablePositions : i <= j
OtherSplit(s) == IF s = "horizontal" THEN "vertical" ELSE "horizontal"
MatchingFlag(s) == IF s = "horizontal" THEN "-h" ELSE "-v"
UsesFlag(c, flag) == \E i \in DOMAIN c : c[i] = flag
GenericShell == <<"bash", "-lc">>

\* C1: every call of get_terminal, whatever the orientation, the force
\* flag, the cache and the environment, returns a non-empty command vector.
C1_NonEmptyCommand == op = "get_terminal" => Len(cmd) > 0

\* C1 witnesses: a forced call with nothing available and a cache in place
\* has returned the generic shell command.
C1_Witness ==
    /\ op = "get_terminal" /\ force /\ split = "vertical"
    /\ TruthyList(terminal) /\ terminal # cmd
    /\ avail = {} /\ tmuxEnv = None
    /\ cmd = GenericShell

\* C2: of two successive get_terminal calls with force=false the second
\* returns what the first returned, the cached command, whatever happened
\* to the environment in between; a call with force=true returns the
\* result of the priority search over the environment of that call.
C2_MemoizedUnlessForced ==
    [][GetTerminalStep =>
         /\ (op = "get_terminal" /\ ~force /\ ~force') =>
                (cmd' = cmd /\ cmd' = terminal')
         /\ force' =>
                cmd' = IF AvailablePositions = {} THEN GenericShell
                       ELSE TERMINALS(MatchingFlag(split'), avail,
                                      tmuxEnv)[FirstAvailable].cmd
      ]_vars

\* C2 witness: an unforced call has returned the cached tmux command in an
\* environment where the search would find kitty instead.
C2_Witness ==
    /\ phase = "ready" /\ op = "get_terminal" /\ ~force
    /\ cmd = <<"tmux", "splitw", "-h">> /\ cmd = terminal
    /\ avail = {"kitty"} /\ tmuxEnv = None

\* C3 (as claimed): whenever TMUX is set and tmux is on the search path, a
\* call of get_terminal returns a command using the split flag of the
\* requested orientation.
C3_AsClaimed ==
    [][(GetTerminalStep /\ tmuxEnv # None /\ "tmux" \in avail) =>
           UsesFlag(cmd', MatchingFlag(split'))
      ]_vars

\* C3 (amended): when the cache is not used (it is empty, or force is
\* true), TMUX is set to a non-empty value and tmux is on the search path,
\* get_terminal returns the tmux split command with the flag of the
\* requested orientation.
C3_SplitFlagWhenSearched ==
    [][(/\ GetTerminalStep
        /\ (terminal = <<>> \/ force')
        /\ tmuxEnv \notin {None, ""}
        /\ "tmux" \in avail) =>
           (cmd'[1] = "tmux" /\ UsesFlag(cmd', MatchingFlag(split'))
            /\ ~UsesFlag(cmd', MatchingFlag(OtherSplit(split'))))
      ]_vars

\* C3 witness: a forced vertical call inside tmux has returned the -v
\* split although the cache holds the -h one.
C3_Witness ==
    /\ op = "get_terminal" /\ force /\ split = "vertical"
    /\ tmuxEnv \notin {None, ""} /\ "tmux" \in avail
    /\ terminal = <<"tmux", "splitw", "-h">>
    /\ cmd = <<"tmux", "splitw", "-v">>

\* C4: when the cache is empty or force is true, get_terminal returns the
\* command of the first available candidate of the priority order, the
\* generic shell command exactly when none is available, and the
\* orientation matters only when tmux is the candidate selected.
C4_FirstAvailableWins ==
    [][(GetTerminalStep /\ (terminal = <<>> \/ force')) =>
         /\ (AvailablePositions = {}) <=> (cmd' = GenericShell)
         /\ AvailablePositions # {} =>
               /\ cmd'[1] = PriorityOrder[FirstAvailable]
               /\ cmd' = TERMINALS(MatchingFlag(split'), avail,
                                   tmuxEnv)[FirstAvailable].cmd
               /\ \A j \in AvailablePositions :
                      j > FirstAvailable => cmd'[1] # PriorityOrder[j]
         /\ cmd'[1] # "tmux" =>
               cmd' = GetTerminalResult(terminal, OtherSplit(split'), force',
                                        avail, tmuxEnv)
      ]_vars

\* C4 witness: a forced call with kitty and xterm installed, and tmux
\* installed but no TMUX session, has returned the kitty command.
C4_Witness ==
    /\ op = "get_terminal" /\ force
    /\ avail = {"tmux", "kitty", "xterm"} /\ tmuxEnv = None
    /\ cmd = <<"kitty", "-e">>

\* C10: after module initialization the cache is non-empty and no step
\* changes it: the only write is the assignment at line 34; a forced call
\* does not store what it recomputes, and every unforced call returns the
\* command cached at initialization.
C10_CacheWrittenOnceAtImport ==
    [][/\ terminal' # terminal => (phase = "import" /\ phase' = "ready")
       /\ phase = "ready" =>
            /\ terminal # <<>>
            /\ terminal' = terminal
            /\ (GetTerminalStep /\ ~force') => cmd' = terminal
      ]_vars

\* C10 witness: after a forced call recomputed a different command, an
\* unforced call has returned the cached one in the same environment.
C10_Witness ==
    /\ phase = "ready" /\ op = "get_terminal" /\ ~force
    /\ cmd = terminal
    /\ cmd # GetTerminalResult(terminal, split, TRUE, avail, tmuxEnv)
    /\ cmd # Preconfigured

\* The one primitive the last call invoked, if it invoked exactly one.
InvokedOnly(prim, a) ==
    /\ Len(invoked) = 1
    /\ invoked[1].prim = prim
    /\ invoked[1].args = a
ScriptSupplied == "gdbscript" \in DOMAIN kwargs
LaunchPrimitives == {"gdb.debug", "remote", "process"}

\* C5 (as claimed): start with the debug flag set and a debugger script
\* supplied invokes gdb.debug on the binary's path with that script and
\* nothing else, whatever the remote flag.
C5_AsClaimed ==
    (op = "start" /\ args.GDB /\ ScriptSupplied) =>
        InvokedOnly("gdb.debug", <<elf.path, kwargs["gdbscript"]>>)

\* C5 (amended): start with the debug flag set and a non-empty debugger
\* script supplied invokes gdb.debug on the binary's path with that script
\* and invokes neither process nor remote, whatever the remote flag.
C5_DebugFirstWithScript ==
    (op = "start" /\ args.GDB /\ ScriptSupplied /\ kwargs["gdbscript"] # "") =>
        InvokedOnly("gdb.debug", <<elf.path, kwargs["gdbscript"]>>)

\* C5 witness: with both flags set and a script given, start has attached
\* the debugger.
C5_Witness ==
    /\ op = "start" /\ args.GDB /\ args.REMOTE
    /\ ScriptSupplied /\ kwargs["gdbscript"] = "b main"
    /\ Len(argv) >= 3
    /\ invoked = <<[prim |-> "gdb.debug", args |-> <<"./chall", "b main">>,
                    outcome |-> "ok"]>>

\* C6: start with the debug branch not taken (flag unset, or no script
\* supplied) and the remote flag set invokes remote with the host from
\* index 1 and the port from index 2 of sys.argv, and nothing else.
C6_AsClaimed ==
    (op = "start" /\ ~(args.GDB /\ ScriptSupplied) /\ args.REMOTE) =>
        /\ Len(argv) >= 3
        /\ InvokedOnly("remote", <<argv[2], argv[3]>>)

\* C7: start with neither flag set spawns the binary with process at the
\* handle's path, for every value of the options, and invokes neither
\* gdb.debug nor remote.
C7_LocalSpawnByDefault ==
    (op = "start" /\ ~args.GDB /\ ~args.REMOTE) =>
        InvokedOnly("process", <<elf.path>>)

\* C7 witness: with neither flag set and a script given, start has
\* spawned the binary.
C7_Witness ==
    /\ op = "start" /\ ~args.GDB /\ ~args.REMOTE
    /\ ScriptSupplied /\ kwargs["gdbscript"] = "b main"
    /\ invoked = <<[prim |-> "process", args |-> <<"./libc.so.6">>,
                    outcome |-> "ok"]>>

\* C8: a call of start reaches exactly one of the three launch primitives
\* and any error it ends with is the one that primitive raised.
C8_AsClaimed ==
    op = "start" =>
        /\ Len(invoked) = 1
        /\ invoked[1].prim \in LaunchPrimitives
        /\ raised # NoError => raised = invoked[1].outcome

\* C9: context.binary changes only in a successful ELF call, which sets it
\* to the handle it returns; an ELF call whose loader raises propagates
\* that very error and leaves context.binary and context.terminal as they
\* were.
C9_CurrentBinaryTracksLoads ==
    [][/\ binary' # binary => (op' = "ELF" /\ raised' = NoError)
       /\ op' = "ELF" =>
            /\ Len(invoked') = 1
            /\ invoked'[1].prim = "_ELF"
            /\ IF invoked'[1].outcome = "ok"
               THEN /\ raised' = NoError
                    /\ ret' # NoHandle
                    /\ ret'.path = invoked'[1].args[1]
                    /\ binary' = ret'
               ELSE /\ raised' = invoked'[1].outcome
                    /\ ret' = NoHandle
                    /\ binary' = binary
                    /\ terminal' = terminal
      ]_vars

\* C9 witness: after two successful loads a third call has raised, and the
\* current binary is still the second handle.
C9_Witness ==
    /\ op = "ELF" /\ raised = "FileNotFoundError"
    /\ binary = [id |-> 2, path |-> "./libc.so.6"]
    /\ terminal # <<>>
====
